---------------------------- MODULE Spec2Model ----------------------------
(***************************************************************************)
(* servauth: the HTTP layer in front of the Better-Auth delegate.          *)
(*                                                                         *)
(* The model follows src/routes/auth.ts in its last form (the handlers     *)
(* that validate with the Zod schemas of src/types/index.ts) and, for the  *)
(* two password-reset endpoints that only the earlier route file has, that *)
(* earlier file.  The store is the four tables of src/db/setup.ts.  Every  *)
(* await of the delegate or of the database is one step of a request, so   *)
(* requests interleave exactly where the handlers can be suspended.        *)
(***************************************************************************)
EXTENDS Integers, Sequences, FiniteSets, Bags, TLC

(***************************************************************************)
(* Bounds of the model.                                                    *)
(***************************************************************************)
MaxInflight == 2
MaxUsers == 2
MaxSessions == 1
MaxTicks == 1
MaxTokens == 2

(***************************************************************************)
(* Program constants.                                                      *)
(***************************************************************************)
EmailMin == 1
EmailMax == 254
PasswordMin == 8
PasswordMax == 128
NameMin == 1
NameMax == 100
\* session.expiresIn: 60 * 60 * 24 * 7 seconds; the model's clock counts days
ExpiresIn == 7

(***************************************************************************)
(* Strings are sequences of one-character strings, so that the length      *)
(* checks and the regular expressions of the schemas are computed.         *)
(***************************************************************************)
LowerChars == {"a", "b", "c", "d", "e", "k", "l", "o", "r", "s", "w"}
UpperChars == {"A", "B", "P"}
DigitChars == {"0", "1"}
\* \s of a JavaScript regular expression: the space and the line break
SpaceChars == {" ", "\n"}

Rep(c, n) == [i \in 1..n |-> c]

\* the first position >= i of s that holds a character of set cs, 0 if none
IndexOf(s, cs, i) ==
    LET hits == {j \in i..Len(s) : s[j] \in cs}
    IN  IF hits = {} THEN 0 ELSE CHOOSE j \in hits : \A k \in hits : j <= k

\* what `.` can run over from the start of s: the text before a line break
FirstLine(s) ==
    LET n == IndexOf(s, {"\n"}, 1)
    IN  IF n = 0 THEN s ELSE SubSeq(s, 1, n - 1)

Chars(s) == {s[i] : i \in 1..Len(s)}

(***************************************************************************)
(* z.string().email(): the pattern Zod applies; local part, one @, dotted  *)
(* domain whose last label has two letters or more.                        *)
(***************************************************************************)
EmailLocalChars == LowerChars \cup UpperChars \cup DigitChars \cup {"_", "'", "+", "-", "."}
EmailLocalLast == LowerChars \cup UpperChars \cup DigitChars \cup {"_", "+", "-"}
EmailLabelFirst == LowerChars \cup UpperChars \cup DigitChars
EmailLabelChars == EmailLabelFirst \cup {"-"}
Letters == LowerChars \cup UpperChars

RECURSIVE IsDomain(_)
\* ([A-Z0-9][A-Z0-9\-]*\.)+[A-Z]{2,}
IsDomain(d) ==
    LET dot == IndexOf(d, {"."}, 1)
    IN  IF dot = 0 THEN FALSE
        ELSE LET label == SubSeq(d, 1, dot - 1)
                 rest == SubSeq(d, dot + 1, Len(d))
             IN  /\ Len(label) >= 1
                 /\ label[1] \in EmailLabelFirst
                 /\ Chars(label) \subseteq EmailLabelChars
                 /\ \/ (Len(rest) >= 2 /\ Chars(rest) \subseteq Letters)
                    \/ IsDomain(rest)

IsEmail(s) ==
    LET at == IndexOf(s, {"@"}, 1)
    IN  /\ at > 1
        /\ LET local == SubSeq(s, 1, at - 1)
               domain == SubSeq(s, at + 1, Len(s))
           IN  /\ local[1] # "."
               /\ \A i \in 1..(Len(s) - 1) : ~(s[i] = "." /\ s[i + 1] = ".")
               /\ Chars(local) \subseteq EmailLocalChars
               /\ local[Len(local)] \in EmailLocalLast
               /\ IsDomain(domain)

\* /^(?=.*[a-z])(?=.*[A-Z])(?=.*\d)/
PasswordRegex(s) ==
    LET line == Chars(FirstLine(s))
    IN  /\ line \cap LowerChars # {}
        /\ line \cap UpperChars # {}
        /\ line \cap DigitChars # {}

\* /^[a-zA-Z\s'-]+$/
NameRegex(s) ==
    /\ Len(s) >= 1
    /\ Chars(s) \subseteq (Letters \cup SpaceChars \cup {"'", "-"})

(***************************************************************************)
(* JSON values of a request body.  A field is absent (undefined), a value  *)
(* that is no string, or a string.                                         *)
(***************************************************************************)
Absent == [t |-> "absent", s |-> <<>>]
NonString == [t |-> "number", s |-> <<>>]
Str(s) == [t |-> "string", s |-> s]

\* one Zod issue, rendered as validateRequestBody renders it
Issue(path, message) == path \o ": " \o message

Check(path, ok, message) == [ok |-> ok, msg |-> Issue(path, message)]

\* the issues of a z.string() and its checks: a missing or non-string value is
\* one issue and stops there; on a string every check runs, in the order added
StringIssues(path, v, checks) ==
    IF v.t = "absent" THEN << Issue(path, "Required") >>
    ELSE IF v.t # "string" THEN << Issue(path, "Expected string, received number") >>
    ELSE LET failed == SelectSeq(checks, LAMBDA c : ~c.ok)
         IN  [i \in DOMAIN failed |-> failed[i].msg]

emailSchema(path, v) ==
    StringIssues(path, v, <<
        Check(path, IsEmail(v.s), "Invalid email format"),
        Check(path, Len(v.s) >= EmailMin, "Email is required"),
        Check(path, Len(v.s) <= EmailMax, "Email is too long") >>)

passwordSchema(path, v) ==
    StringIssues(path, v, <<
        Check(path, Len(v.s) >= PasswordMin, "Password must be at least 8 characters"),
        Check(path, Len(v.s) <= PasswordMax, "Password is too long"),
        Check(path, PasswordRegex(v.s), "Password must contain at least one lowercase letter, one uppercase letter, and one number") >>)

nameSchema(path, v) ==
    StringIssues(path, v, <<
        Check(path, Len(v.s) >= NameMin, "Name is required"),
        Check(path, Len(v.s) <= NameMax, "Name is too long"),
        Check(path, NameRegex(v.s), "Name can only contain letters, spaces, hyphens, and apostrophes") >>)

\* z.object(...): a body that is no object is one issue with an empty path
ObjectIssues(body, fieldIssues) ==
    IF body.kind # "object" THEN << Issue("", "Expected object, received null") >>
    ELSE fieldIssues

registerSchema(body) ==
    ObjectIssues(body, emailSchema("email", body.email)
                       \o passwordSchema("password", body.password)
                       \o nameSchema("name", body.name))

loginSchema(body) ==
    ObjectIssues(body, emailSchema("email", body.email)
                       \o StringIssues("password", body.password, <<
                              Check("password", Len(body.password.s) >= 1, "Password is required") >>))

Optional(v, issues) == IF v.t = "absent" THEN <<>> ELSE issues

\* a field of the wrong type aborts the object, and the refinement is not run
Aborted(body) == \E v \in {body.name, body.email} : v.t = "number"

\* the update shape without its cross-field refinement
updateUserSchema_NoRefine(body) ==
    ObjectIssues(body, Optional(body.name, nameSchema("name", body.name))
                       \o Optional(body.email, emailSchema("email", body.email)))

updateUserSchema(body) ==
    LET inner == ObjectIssues(body, Optional(body.name, nameSchema("name", body.name))
                                    \o Optional(body.email, emailSchema("email", body.email)))
    IN  IF body.kind # "object" \/ Aborted(body) THEN inner
        ELSE IF body.name.t # "absent" \/ body.email.t # "absent" THEN inner
        ELSE inner \o << Issue("name.email", "At least one field (name or email) must be provided") >>

\* a validation that lets every body through
validateRequestBody_Pass(issues) == [success |-> TRUE, errors |-> <<>>]

\* validateRequestBody(schema, data): success with the data, or the error strings
validateRequestBody(issues) == [success |-> issues = <<>>, errors |-> issues]


(***************************************************************************)
(* The state: the tables of the store, the clock, the requests in flight,  *)
(* and what the callers have been told so far.                             *)
(***************************************************************************)
VARIABLES
    users,          \* "user" table: id -> row
    accounts,       \* "account" table: userId -> credential
    sessions,       \* "session" table: token -> [userId, expiresAt]
    nextId,         \* the next fresh user id (gen_random_uuid)
    nextTok,        \* the next fresh session token
    now,            \* the clock, in days
    reqs,           \* the requests suspended at an await, a bag
    out,            \* the request the last step answered, with its response
    loggedOut,      \* session tokens a 200 logout response was given for
    deletedToks,    \* tokens of the sessions a user had when a 200 delete answered
    registered,     \* user id -> the email its 201 register response reported
    written,        \* user id -> the name and email last written for it
    vBody,          \* validator run: the body
    vOut,           \* validator run: the response, once computed
    verifications,  \* "verification" table: reset token -> [userId, expiresAt]
    nextVer,        \* the next fresh reset token
    consumed,       \* reset tokens a 200 reset-password response was given for
    autoSignIn      \* emailAndPassword.autoSignIn of the configuration in use

store == << users, accounts, sessions, nextId, nextTok >>
history == << loggedOut, deletedToks, registered, written >>
rvars == << verifications, nextVer, consumed >>
vvars == << vBody, vOut, rvars, autoSignIn >>
vars == << users, accounts, sessions, nextId, nextTok, now,
           reqs, out, loggedOut, deletedToks, registered, written, vBody, vOut,
           verifications, nextVer, consumed, autoSignIn >>

(***************************************************************************)
(* Cookies, bodies and responses.                                          *)
(***************************************************************************)
NoCookie == [kind |-> "none", tok |-> 0]
UnknownCookie == [kind |-> "unknown", tok |-> 0]
ClearCookie == [kind |-> "clear", tok |-> 0]
SessionCookie(tok) == [kind |-> "session", tok |-> tok]

\* the cookies a caller may present: none, one no login ever issued, any issued one
Cookies == {NoCookie, UnknownCookie} \cup {SessionCookie(k) : k \in 1..(nextTok - 1)}

EmailA == << "a", "@", "b", ".", "c", "o" >>
EmailB == << "c", "@", "b", ".", "c", "o" >>
PassA == << "P", "a", "s", "s", "w", "0", "r", "d" >>
PassB == << "P", "a", "s", "s", "w", "0", "r", "1" >>
NameA == << "A", "l" >>
NameB == << "B", "o" >>

Body(kind, email, password, name) ==
    [kind |-> kind, email |-> email, password |-> password, name |-> name,
     token |-> Absent, id |-> 0]
NoBody == Body("none", Absent, Absent, Absent)
MalformedBody == Body("malformed", Absent, Absent, Absent)
EmptyObject == Body("object", Absent, Absent, Absent)

NoUser == [id |-> 0, email |-> <<>>, name |-> <<>>, emailVerified |-> FALSE,
           image |-> "null", createdAt |-> 0, updatedAt |-> 0]
NoSession == [tok |-> 0, userId |-> 0, expiresAt |-> 0]

\* the row of user id as the store holds it, undefined (NoUser) when there is none
UserRow(us, id) == IF id \in DOMAIN us THEN us[id] ELSE NoUser

\* what the delegate answers: a status, its own error text, and on success
\* the user, the session and the Set-Cookie header
NoAnswer == [status |-> 0, error |-> "", user |-> NoUser, session |-> NoSession,
             setCookie |-> NoCookie]

NoResp == [status |-> 0, error |-> "", message |-> "", details |-> <<>>,
           user |-> NoUser, session |-> NoSession, setCookie |-> NoCookie]

\* c.json({error}, status), c.json({error, details}, status)
JsonError(status, error) == [NoResp EXCEPT !.status = status, !.error = error]
JsonDetails(status, error, details) ==
    [NoResp EXCEPT !.status = status, !.error = error, !.details = details]
JsonMessage(status, message) == [NoResp EXCEPT !.status = status, !.message = message]

\* a request: what it carries, where it is, the outcome of its last call, the
\* user its session check resolved, its response; the g-fields record what was
\* the case when the request arrived
Idle == [kind |-> "none", pc |-> "idle", cookie |-> NoCookie, body |-> NoBody,
         outcome |-> "", uid |-> 0, resp |-> NoResp,
         gHad |-> FALSE, gPrior |-> {}, gToks |-> {}]

Request(kind, cookie, body) == [Idle EXCEPT !.kind = kind, !.cookie = cookie, !.body = body]

\* a handler whose awaited calls never settle
At_Never(r, kind, pc) == FALSE

At(r, kind, pc) == r.kind = kind /\ r.pc = pc
\* how many requests of this kind are suspended
InFlight(kind) ==
    BagCardinality([r \in {x \in BagToSet(reqs) : x.kind = kind} |-> reqs[r]])
\* a request can be suspended only while the server holds fewer than MaxInflight
Room == BagCardinality(reqs) < MaxInflight

Respond(r, resp) == [r EXCEPT !.pc = "done", !.resp = resp]

(***************************************************************************)
(* The delegate (Better-Auth) and the store's own rules.                   *)
(***************************************************************************)
\* the outcomes of a call: it works, it answers with a failure status of its
\* own (the store or the request was not acceptable to it), or it throws
Outcomes == {"ok", "fail", "throw"}
CallOutcomes == {"ok", "throw"}
ThrownMessage == "connection terminated unexpectedly"

\* a session counts while its row is there, it has not expired and its user exists
ValidSession(tok) ==
    /\ tok \in DOMAIN sessions
    /\ sessions[tok].expiresAt > now
    /\ sessions[tok].userId \in DOMAIN users

\* a session check that resolves every valid session to the first user
GetSession_First(cookie) ==
    IF cookie.kind = "session" /\ ValidSession(cookie.tok)
    THEN [user |-> UserRow(users, CHOOSE u \in DOMAIN users :
                                      \A v \in DOMAIN users : u <= v),
          session |-> [tok |-> cookie.tok, userId |-> sessions[cookie.tok].userId,
                       expiresAt |-> sessions[cookie.tok].expiresAt]]
    ELSE [user |-> NoUser, session |-> NoSession]

\* auth.api.getSession({headers}): {user, session} or null
GetSession(cookie) ==
    IF cookie.kind = "session" /\ ValidSession(cookie.tok)
    THEN [user |-> UserRow(users, sessions[cookie.tok].userId),
          session |-> [tok |-> cookie.tok, userId |-> sessions[cookie.tok].userId,
                       expiresAt |-> sessions[cookie.tok].expiresAt]]
    ELSE [user |-> NoUser, session |-> NoSession]

UserByEmail(us, email) == {id \in DOMAIN us : us[id].email = email}

\* a user table without the UNIQUE constraint on email
UniqueEmail_Off(us, id, email) == TRUE

\* "email" TEXT NOT NULL UNIQUE: may a row of id hold this email
UniqueEmail(us, id, email) == UserByEmail(us, email) \subseteq {id}

\* REFERENCES "user"("id") ON DELETE CASCADE, of the session and account tables
CascadeSessions(ss, id) == [k \in {k \in DOMAIN ss : ss[k].userId # id} |-> ss[k]]
CascadeAccounts(as, id) == [u \in DOMAIN as \ {id} |-> as[u]]

\* sign-out: the session of the request's cookie is deleted
SignOutSessions(ss, cookie) ==
    IF cookie.kind = "session"
    THEN [k \in DOMAIN ss \ {cookie.tok} |-> ss[k]]
    ELSE ss

\* a mapping that hands on whatever the re-read gave, a row or none
transformUserResponse_Loose(user) == [ok |-> TRUE, user |-> user]

\* transformUserResponse: userSchema.parse of the row; throws on a missing row
transformUserResponse(user) == [ok |-> user.id # 0, user |-> user]

(***************************************************************************)
(* The delegate's answers, computed on the store as it is at the call.     *)
(***************************************************************************)
\* sign-up, first half: the delegate looks the email up
SignUpTaken(us, email) == UserByEmail(us, email) # {}

\* the row sign-up inserts
NewUser(id, email, name, time) ==
    [id |-> id, email |-> email, name |-> name, emailVerified |-> FALSE,
     image |-> "null", createdAt |-> time, updatedAt |-> time]

\* sign-up, when the configuration signs the new user in: a session of the
\* user's, under a token of its own that no response of this service carries
SignUpToken(id) == 0 - id
SignUpSession(ss, id, time, auto) ==
    IF auto
    THEN (SignUpToken(id) :> [userId |-> id, expiresAt |-> time + ExpiresIn]) @@ ss
    ELSE ss

\* a sign-in whose session has no lifetime
SignInAnswer_NoLifetime(us, as, email, password, tok, time) ==
    LET ids == UserByEmail(us, email)
    IN  IF ids = {} THEN [NoAnswer EXCEPT !.status = 401, !.error = "User not found"]
        ELSE LET id == CHOOSE i \in ids : TRUE
             IN  IF id \notin DOMAIN as \/ as[id].password # password
                 THEN [NoAnswer EXCEPT !.status = 401, !.error = "Invalid password"]
                 ELSE [NoAnswer EXCEPT !.status = 200, !.user = us[id],
                           !.session = [tok |-> tok, userId |-> id, expiresAt |-> time],
                           !.setCookie = SessionCookie(tok)]

\* sign-in: the answer for these credentials; tok is the token a success issues
SignInAnswer(us, as, email, password, tok, time) ==
    LET ids == UserByEmail(us, email)
    IN  IF ids = {} THEN [NoAnswer EXCEPT !.status = 401, !.error = "User not found"]
        ELSE LET id == CHOOSE i \in ids : TRUE
             IN  IF id \notin DOMAIN as \/ as[id].password # password
                 THEN [NoAnswer EXCEPT !.status = 401, !.error = "Invalid password"]
                 ELSE [NoAnswer EXCEPT !.status = 200, !.user = us[id],
                           !.session = [tok |-> tok, userId |-> id,
                                        expiresAt |-> time + ExpiresIn],
                           !.setCookie = SessionCookie(tok)]

\* an answer of the delegate that reports a failure of its own
FailedAnswer == [NoAnswer EXCEPT !.status = 500, !.error = ""]
\* the same with a Set-Cookie header, one that sets no session
FailedAnswerClearing == [FailedAnswer EXCEPT !.setCookie = ClearCookie]
\* the outcomes of the sign-in call: its failure may come with a Set-Cookie header
LoginOutcomes == Outcomes \cup {"failClearing"}

(***************************************************************************)
(* What the handlers make of the delegate's answer.                        *)
(***************************************************************************)
Or(text, default) == IF text = "" THEN default ELSE text

\* a register handler with one status of its own for every failure
RegisterResponse_Flat400(answer) ==
    IF answer.status >= 400
    THEN JsonError(400, Or(answer.error, "Registration failed"))
    ELSE [JsonMessage(201, "Registration successful") EXCEPT !.user = answer.user]

\* POST /auth/register, after auth.handler(request)
RegisterResponse(answer) ==
    IF answer.status >= 400
    THEN JsonError(answer.status, Or(answer.error, "Registration failed"))
    ELSE LET t == transformUserResponse(answer.user)
         IN  IF t.ok
             THEN [JsonMessage(201, "Registration successful") EXCEPT !.user = t.user]
             ELSE JsonError(500, "Registration failed")

\* a login handler that passes the delegate's own error text on
LoginResponse_Echo(answer) ==
    IF answer.status >= 400
    THEN [JsonError(401, Or(answer.error, "Invalid credentials")) EXCEPT
              !.setCookie = answer.setCookie]
    ELSE [JsonMessage(200, "Login successful") EXCEPT
              !.user = answer.user, !.session = answer.session,
              !.setCookie = answer.setCookie]

\* a login that forwards the Set-Cookie header only when it answers 200
LoginResponse_CookieOn200(answer) ==
    IF answer.status >= 400 THEN JsonError(401, "Invalid credentials")
    ELSE LET t == transformUserResponse(answer.user)
         IN  IF t.ok
             THEN [JsonMessage(200, "Login successful") EXCEPT
                       !.user = t.user, !.session = answer.session,
                       !.setCookie = answer.setCookie]
             ELSE JsonError(500, "Login failed")

\* POST /auth/login, after auth.handler(request): the Set-Cookie header is
\* forwarded first, then the status is looked at
LoginResponse(answer) ==
    IF answer.status >= 400
    THEN [JsonError(401, "Invalid credentials") EXCEPT !.setCookie = answer.setCookie]
    ELSE LET t == transformUserResponse(answer.user)
         IN  IF t.ok
             THEN [JsonMessage(200, "Login successful") EXCEPT
                       !.user = t.user, !.session = answer.session,
                       !.setCookie = answer.setCookie]
             ELSE [JsonError(500, "Login failed") EXCEPT !.setCookie = answer.setCookie]

\* a logout that writes a clearing cookie of its own
LogoutResponse_OwnCookie(answer) ==
    [JsonMessage(200, "Logout successful") EXCEPT !.setCookie = ClearCookie]

\* POST /auth/logout, after auth.handler(request): the status is not looked at
LogoutResponse(answer) ==
    [JsonMessage(200, "Logout successful") EXCEPT !.setCookie = answer.setCookie]

\* a GET /auth/me whose catch answers 500, as the other handlers' do
MeResponse_Catch500(outcome, found) ==
    IF outcome = "throw" THEN JsonError(500, ThrownMessage)
    ELSE IF found.session = NoSession \/ found.user = NoUser
    THEN JsonError(401, "Unauthorized")
    ELSE [NoResp EXCEPT !.status = 200, !.user = found.user]

\* GET /auth/me, after auth.api.getSession
MeResponse(outcome, found) ==
    IF outcome = "throw" THEN JsonError(401, "Failed to get user")
    ELSE IF found.session = NoSession \/ found.user = NoUser
    THEN JsonError(401, "Unauthorized")
    ELSE LET t == transformUserResponse(found.user)
         IN  IF t.ok THEN [NoResp EXCEPT !.status = 200, !.user = t.user]
             ELSE JsonError(401, "Failed to get user")

\* a refresh that answers 200 with whatever the lookup returned
RefreshResponse_NoCheck(outcome, found) ==
    IF outcome = "throw" THEN JsonError(500, ThrownMessage)
    ELSE [NoResp EXCEPT !.status = 200, !.user = found.user, !.session = found.session]

\* POST /auth/refresh, after auth.api.getSession: only the session is looked
\* at, and user and session go out as the delegate gave them
RefreshResponse(outcome, found) ==
    IF outcome = "throw" THEN JsonError(500, ThrownMessage)
    ELSE IF found.session = NoSession THEN JsonError(401, "No active session")
    ELSE [NoResp EXCEPT !.status = 200, !.user = found.user, !.session = found.session]

\* a session check that lets a request without session through
GateResponse_Open(outcome, found) ==
    IF outcome = "throw" THEN JsonError(500, ThrownMessage) ELSE NoResp

\* the session check PUT and DELETE /auth/me start with: the response that ends
\* the request there, or NoResp when the handler goes on
GateResponse(outcome, found) ==
    IF outcome = "throw" THEN JsonError(500, ThrownMessage)
    ELSE IF found.session = NoSession \/ found.user = NoUser
    THEN JsonError(401, "Unauthorized")
    ELSE NoResp

\* a handler that hands whatever arrived to the schema
BodyResponse_SchemaOnly(body, issues) ==
    LET v == validateRequestBody(issues)
    IN  IF v.success THEN NoResp
        ELSE JsonDetails(400, "Validation failed", v.errors)

\* c.req.json() and validateRequestBody: the 400 response, or NoResp
BodyResponse(body, issues) ==
    IF body.kind = "malformed"
    THEN JsonDetails(400, "Invalid JSON format", << "Request body must be valid JSON" >>)
    ELSE LET v == validateRequestBody(issues)
         IN  IF v.success THEN NoResp
             ELSE JsonDetails(400, "Validation failed", v.errors)

\* DELETE /auth/me, after the sign-out it forwards: the status is not looked at
DeleteResponse(answer) ==
    [JsonMessage(200, "Account deleted successfully") EXCEPT !.setCookie = answer.setCookie]

(***************************************************************************)
(* The bodies the callers send.                                            *)
(***************************************************************************)
RegisterBodies ==
    {Body("object", Str(e), Str(PassA), Str(NameA)) : e \in {EmailA, EmailB}}
        \cup {MalformedBody, Body("object", Str(EmailA), Str(PassA), Absent)}
LoginBodies ==
    {Body("object", Str(e), Str(p), Absent) : e \in {EmailA, EmailB}, p \in {PassA, PassB}}
        \cup {MalformedBody, Body("object", Str(EmailA), Absent, Absent)}
PutBodies ==
    {EmptyObject, MalformedBody,
     Body("object", Absent, Absent, Str(NameA)),
     Body("object", Absent, Absent, Str(NameB)),
     Body("object", Str(EmailB), Absent, Absent)}
ForgotBodies ==
    {Body("object", Str(e), Absent, Absent) : e \in {EmailA, EmailB}}
        \cup {Body("object", Str(<< "a", "@" >>), Absent, Absent)}

Init ==
    /\ users = << >>
    /\ accounts = << >>
    /\ sessions = << >>
    /\ nextId = 1
    /\ nextTok = 1
    /\ now = 0
    /\ reqs = EmptyBag
    /\ out = Idle
    /\ loggedOut = {}
    /\ deletedToks = {}
    /\ registered = << >>
    /\ written = << >>
    /\ vBody = NoBody
    /\ vOut = NoResp
    /\ verifications = << >>
    /\ nextVer = 1
    /\ consumed = {}
    /\ autoSignIn = FALSE

\* the step answers request r
Answer(r, resp) == out' = Respond(r, resp)
\* the step takes the new request r in and leaves it suspended at its first await
Suspend(r) == reqs' = reqs (+) SetToBag({r}) /\ out' = Idle
\* the step takes the suspended request r on to its next await, as r2
Resume(r, r2) == reqs' = (reqs (-) SetToBag({r})) (+) SetToBag({r2}) /\ out' = Idle
\* the suspended request r ends with this step
Release(r) == reqs' = reqs (-) SetToBag({r})

\* a response goes out to its caller before the server takes its next step
Delivered == out = Idle

Deliver ==
    /\ out # Idle
    /\ out' = Idle
    /\ UNCHANGED << store, now, reqs, history, vvars >>

\* time passes: long enough for the sessions there are to expire
Tick ==
    /\ Delivered
    /\ now < MaxTicks * ExpiresIn
    /\ now' = now + ExpiresIn
    /\ out' = Idle
    /\ UNCHANGED << store, reqs, history, vvars >>

(***************************************************************************)
(* POST /auth/register                                                     *)
(***************************************************************************)
\* the request arrives, is parsed and validated, and the delegate looks the email up
RegisterSignUpCheck(body, outcome) ==
    /\ Delivered
    /\ LET r == [Request("register", NoCookie, body) EXCEPT
                     !.outcome = outcome,
                     !.gPrior = {u \in DOMAIN users : registered[u] = body.email.s}]
           early == BodyResponse(body, registerSchema(body))
       IN  IF early # NoResp
           THEN Answer(r, early) /\ UNCHANGED reqs
           ELSE IF outcome = "throw"
           THEN Answer(r, JsonError(500, ThrownMessage)) /\ UNCHANGED reqs
           ELSE IF outcome = "fail"
           THEN Answer(r, RegisterResponse(FailedAnswer)) /\ UNCHANGED reqs
           ELSE IF SignUpTaken(users, body.email.s)
           THEN Answer(r, RegisterResponse([NoAnswer EXCEPT !.status = 422]))
                /\ UNCHANGED reqs
           ELSE /\ Room
                /\ nextId + InFlight("register") <= MaxUsers
                /\ Suspend([r EXCEPT !.pc = "signUpInsert"])
    /\ UNCHANGED << store, now, history, vvars >>

\* the delegate inserts the user and the account rows
RegisterSignUpInsert(r, outcome) ==
    /\ Delivered
    /\ At(r, "register", "signUpInsert")
    /\ Release(r)
    /\ LET row == NewUser(nextId, r.body.email.s, r.body.name.s, now)
           q == [r EXCEPT !.outcome = outcome]
       IN  IF outcome = "throw"
           THEN /\ Answer(q, JsonError(500, ThrownMessage))
                /\ UNCHANGED << users, accounts, sessions, nextId, registered, written >>
           ELSE IF outcome = "fail"
           THEN /\ Answer(q, RegisterResponse(FailedAnswer))
                /\ UNCHANGED << users, accounts, sessions, nextId, registered, written >>
           ELSE IF ~UniqueEmail(users, nextId, row.email)
           THEN /\ Answer(q, RegisterResponse([NoAnswer EXCEPT !.status = 422]))
                /\ UNCHANGED << users, accounts, sessions, nextId, registered, written >>
           ELSE /\ users' = (nextId :> row) @@ users
                /\ accounts' = (nextId :> [password |-> r.body.password.s]) @@ accounts
                /\ sessions' = SignUpSession(sessions, nextId, now, autoSignIn)
                /\ nextId' = nextId + 1
                /\ LET resp == RegisterResponse([NoAnswer EXCEPT !.status = 200,
                                                     !.user = row])
                   IN  /\ Answer(q, resp)
                       /\ registered' = IF resp.status = 201
                                        THEN (nextId :> resp.user.email) @@ registered
                                        ELSE registered
                /\ written' = (nextId :> [name |-> row.name, email |-> row.email])
                                  @@ written
    /\ UNCHANGED << nextTok, now, loggedOut, deletedToks, vvars >>

(***************************************************************************)
(* POST /auth/login                                                        *)
(***************************************************************************)
Login(body, outcome) ==
    /\ Delivered
    /\ LET answer == SignInAnswer(users, accounts, body.email.s, body.password.s,
                                  nextTok, now)
           early == BodyResponse(body, loginSchema(body))
           r == [Request("login", NoCookie, body) EXCEPT !.outcome = outcome]
       IN  IF early # NoResp
           THEN Answer(r, early) /\ UNCHANGED << sessions, nextTok >>
           ELSE IF outcome = "throw"
           THEN Answer(r, JsonError(500, ThrownMessage)) /\ UNCHANGED << sessions, nextTok >>
           ELSE IF outcome = "fail"
           THEN Answer(r, LoginResponse(FailedAnswer)) /\ UNCHANGED << sessions, nextTok >>
           ELSE IF outcome = "failClearing"
           THEN Answer(r, LoginResponse(FailedAnswerClearing))
                /\ UNCHANGED << sessions, nextTok >>
           ELSE IF answer.status # 200
           THEN Answer(r, LoginResponse(answer)) /\ UNCHANGED << sessions, nextTok >>
           ELSE /\ nextTok <= MaxSessions
                /\ Answer(r, LoginResponse(answer))
                /\ sessions' = (nextTok :> [userId |-> answer.session.userId,
                                           expiresAt |-> answer.session.expiresAt])
                                   @@ sessions
                /\ nextTok' = nextTok + 1
    /\ UNCHANGED << users, accounts, nextId, now, reqs, history, vvars >>

(***************************************************************************)
(* POST /auth/logout                                                       *)
(***************************************************************************)
Logout(cookie, outcome) ==
    /\ Delivered
    /\ LET r == [Request("logout", cookie, NoBody) EXCEPT
                     !.outcome = outcome,
                     !.gHad = (GetSession(cookie).session # NoSession)]
           resp == IF outcome = "throw" THEN JsonError(500, ThrownMessage)
                   ELSE IF outcome = "fail" THEN LogoutResponse(FailedAnswer)
                   ELSE LogoutResponse([NoAnswer EXCEPT !.status = 200,
                                            !.setCookie = ClearCookie])
       IN  /\ Answer(r, resp)
           /\ sessions' = IF outcome = "ok" THEN SignOutSessions(sessions, cookie)
                          ELSE sessions
           /\ loggedOut' = IF resp.status = 200 /\ cookie.kind = "session"
                           THEN loggedOut \cup {cookie.tok} ELSE loggedOut
    /\ UNCHANGED << users, accounts, nextId, nextTok, now, reqs, deletedToks,
                    registered, written, vvars >>

(***************************************************************************)
(* GET /auth/me                                                            *)
(***************************************************************************)
Me(cookie, outcome) ==
    /\ Delivered
    /\ LET found == GetSession(cookie)
           r == [Request("me", cookie, NoBody) EXCEPT
                     !.outcome = outcome,
                     !.gHad = (found.session # NoSession),
                     !.uid = found.user.id]
       IN  Answer(r, MeResponse(outcome, found))
    /\ UNCHANGED << store, now, reqs, history, vvars >>

(***************************************************************************)
(* POST /auth/refresh                                                      *)
(***************************************************************************)
Refresh(cookie, outcome) ==
    /\ Delivered
    /\ LET found == GetSession(cookie)
           r == [Request("refresh", cookie, NoBody) EXCEPT
                     !.outcome = outcome,
                     !.gHad = (found.session # NoSession),
                     !.uid = found.user.id]
       IN  Answer(r, RefreshResponse(outcome, found))
    /\ UNCHANGED << store, now, reqs, history, vvars >>

(***************************************************************************)
(* PUT /auth/me                                                            *)
(***************************************************************************)
\* the fields the handler writes: those of the validated body
Updates(body) == {f \in {"name", "email"} : body[f].t # "absent"}

\* the request arrives and the session is checked; behind the gate the body is
\* parsed and validated
PutGetSession(cookie, body, outcome) ==
    /\ Delivered
    /\ LET found == GetSession(cookie)
           gate == GateResponse(outcome, found)
           early == BodyResponse(body, updateUserSchema(body))
           r == [Request("put", cookie, NoBody) EXCEPT
                     !.outcome = outcome,
                     !.gHad = (found.session # NoSession)]
           in == [r EXCEPT !.uid = found.user.id, !.body = body]
       IN  IF gate # NoResp THEN Answer(r, gate) /\ UNCHANGED reqs
           ELSE IF early # NoResp THEN Answer(in, early) /\ UNCHANGED reqs
           ELSE /\ Room
                /\ Suspend([in EXCEPT !.pc = IF Updates(body) # {} THEN "update"
                                             ELSE "select"])
    /\ UNCHANGED << store, now, history, vvars >>

\* an update that sets both columns from the body, given or not
UpdatedRow_Whole(row, body, time) ==
    [row EXCEPT !.name = body.name.s, !.email = body.email.s, !.updatedAt = time]

\* db.update(users).set(updates).where(eq(users.id, id))
UpdatedRow(row, body, time) ==
    [row EXCEPT !.name = IF "name" \in Updates(body) THEN body.name.s ELSE @,
                !.email = IF "email" \in Updates(body) THEN body.email.s ELSE @,
                !.updatedAt = time]

PutUpdate(r, outcome) ==
    /\ Delivered
    /\ At(r, "put", "update")
    /\ LET q == [r EXCEPT !.outcome = outcome]
       IN  IF outcome = "throw"
           THEN /\ Answer(q, JsonError(500, ThrownMessage))
                /\ Release(r)
                /\ UNCHANGED << users, written >>
           ELSE IF r.uid \notin DOMAIN users
           THEN /\ Resume(r, [r EXCEPT !.pc = "select"])
                /\ UNCHANGED << users, written >>
           ELSE IF "email" \in Updates(r.body) /\ ~UniqueEmail(users, r.uid, r.body.email.s)
           THEN /\ Answer(q, JsonError(500, "duplicate key value violates unique constraint"))
                /\ Release(r)
                /\ UNCHANGED << users, written >>
           ELSE /\ users' = [users EXCEPT ![r.uid] = UpdatedRow(@, r.body, now)]
                /\ written' = [written EXCEPT ![r.uid] =
                                  [f \in {"name", "email"} |->
                                      IF f \in Updates(r.body) THEN r.body[f].s ELSE @[f]]]
                /\ Resume(r, [r EXCEPT !.pc = "select"])
    /\ UNCHANGED << accounts, sessions, nextId, nextTok, now, loggedOut, deletedToks,
                    registered, vvars >>

\* db.select().from(users).where(eq(users.id, id)).limit(1), then the response
PutSelect(r, outcome) ==
    /\ Delivered
    /\ At(r, "put", "select")
    /\ Release(r)
    /\ LET t == transformUserResponse(UserRow(users, r.uid))
       IN  Answer([r EXCEPT !.outcome = outcome],
                  IF outcome = "throw" THEN JsonError(500, ThrownMessage)
                  ELSE IF t.ok THEN [NoResp EXCEPT !.status = 200, !.user = t.user]
                  ELSE JsonError(500, "undefined is not an object"))
    /\ UNCHANGED << store, now, history, vvars >>

(***************************************************************************)
(* DELETE /auth/me                                                         *)
(***************************************************************************)
DeleteGetSession(cookie, outcome) ==
    /\ Delivered
    /\ LET found == GetSession(cookie)
           gate == GateResponse(outcome, found)
           r == [Request("delete", cookie, NoBody) EXCEPT
                     !.outcome = outcome,
                     !.gHad = (found.session # NoSession)]
       IN  IF gate # NoResp THEN Answer(r, gate) /\ UNCHANGED reqs
           ELSE /\ Room
                /\ Suspend([r EXCEPT !.uid = found.user.id, !.pc = "deleteRow"])
    /\ UNCHANGED << store, now, history, vvars >>

\* a delete that removes no row
DeleteUserRow_Keep(us, id) == us

\* a delete without its where clause
DeleteUserRow_All(us, id) == << >>

\* db.delete(users).where(eq(users.id, id))
DeleteUserRow(us, id) == [u \in DOMAIN us \ {id} |-> us[u]]

\* the row goes, and with it what the store cascades from it
DeleteRow(r, outcome) ==
    /\ Delivered
    /\ At(r, "delete", "deleteRow")
    /\ IF outcome = "throw"
       THEN /\ Answer([r EXCEPT !.outcome = outcome], JsonError(500, ThrownMessage))
            /\ Release(r)
            /\ UNCHANGED << users, accounts, sessions, written >>
       ELSE /\ users' = DeleteUserRow(users, r.uid)
            /\ written' = [u \in DOMAIN written \cap DOMAIN users' |-> written[u]]
            /\ accounts' = IF r.uid \in DOMAIN users'
                           THEN accounts ELSE CascadeAccounts(accounts, r.uid)
            /\ sessions' = IF r.uid \in DOMAIN users'
                           THEN sessions ELSE CascadeSessions(sessions, r.uid)
            /\ Resume(r, [r EXCEPT !.pc = "signOut",
                            !.gToks = {k \in DOMAIN sessions : sessions[k].userId = r.uid}
                                         \cup {r.cookie.tok}])
    /\ UNCHANGED << nextId, nextTok, now, loggedOut, deletedToks, registered, vvars >>

\* the sign-out the handler forwards to the delegate, then the response
DeleteSignOut(r, outcome) ==
    /\ Delivered
    /\ At(r, "delete", "signOut")
    /\ Release(r)
    /\ LET resp == IF outcome = "throw" THEN JsonError(500, ThrownMessage)
                   ELSE IF outcome = "fail" THEN DeleteResponse(FailedAnswer)
                   ELSE DeleteResponse([NoAnswer EXCEPT !.status = 200,
                                            !.setCookie = ClearCookie])
       IN  /\ Answer([r EXCEPT !.outcome = outcome], resp)
           /\ sessions' = IF outcome = "ok" THEN SignOutSessions(sessions, r.cookie)
                          ELSE sessions
           /\ deletedToks' = IF resp.status = 200 THEN deletedToks \cup r.gToks
                             ELSE deletedToks
    /\ UNCHANGED << users, accounts, nextId, nextTok, now, loggedOut, registered,
                    written, vvars >>

(***************************************************************************)
(* POST /auth/forgot-password (the earlier route file)                     *)
(***************************************************************************)
\* the forgot-password request shape: an email of valid syntax
ResetPasswordSchema(body) ==
    ObjectIssues(body, StringIssues("email", body.email, <<
        Check("email", IsEmail(body.email.s), "Invalid email format") >>))

\* validate(schema): the middleware in front of the handler
ValidateResponse(body, issues) ==
    IF body.kind = "malformed" THEN JsonError(400, "Invalid request body")
    ELSE IF issues # << >> THEN JsonDetails(400, "Validation failed", issues)
    ELSE NoResp

\* a forgot-password handler that tells whether an account was found
ForgotResponse_Tell(outcome, sent) ==
    IF outcome = "throw" THEN JsonError(500, "Failed to process password reset")
    ELSE IF sent THEN JsonMessage(200, "A password reset link has been sent")
    ELSE JsonError(404, "No account with this email")

\* the handler, after auth.api.forgetPassword; sent tells whether the delegate
\* found an account to send the link to, which the handler does not look at
ForgotResponse(outcome, sent) ==
    IF outcome = "throw" THEN JsonError(500, "Failed to process password reset")
    ELSE JsonMessage(200,
           "If an account exists with this email, a password reset link has been sent")

\* the k-th reset token issued, as the text the link carries
TokenText(k) == Rep("t", k)
TokenOf(text) == Len(text)

\* the delegate's forget-password: a verification row for the account, if any;
\* the row is inert an hour later, which is before the clock's next tick
IssueToken(vs, us, email, k, time) ==
    IF SignUpTaken(us, email)
    THEN (k :> [userId |-> CHOOSE i \in UserByEmail(us, email) : TRUE,
                expiresAt |-> time + 1]) @@ vs
    ELSE vs

Forgot(body, outcome) ==
    /\ Delivered
    /\ LET early == ValidateResponse(body, ResetPasswordSchema(body))
           r == [Request("forgot", NoCookie, body) EXCEPT !.outcome = outcome]
           issued == IssueToken(verifications, users, body.email.s, nextVer, now)
       IN  IF early # NoResp
           THEN Answer(r, early) /\ UNCHANGED << verifications, nextVer >>
           ELSE /\ Answer(r, ForgotResponse(outcome, SignUpTaken(users, body.email.s)))
                /\ IF outcome = "ok" /\ issued # verifications
                   THEN /\ nextVer <= MaxTokens
                        /\ verifications' = issued
                        /\ nextVer' = nextVer + 1
                   ELSE UNCHANGED << verifications, nextVer >>
    /\ UNCHANGED << store, now, reqs, history, vBody, vOut, consumed, autoSignIn >>

(***************************************************************************)
(* POST /auth/reset-password (the earlier route file)                      *)
(***************************************************************************)
\* the reset-password request shape: a token and a password of the register rule
NewPasswordSchema(body) ==
    ObjectIssues(body, StringIssues("token", body.token, <<
                           Check("token", Len(body.token.s) >= 1, "Token is required") >>)
                       \o passwordSchema("password", body.password))

ResetBody(token, password) ==
    [Body("object", Absent, password, Absent) EXCEPT !.token = token]

\* may the delegate reset with this token: its row is there and not yet inert
TokenLive(vs, us, k, time) ==
    /\ k \in DOMAIN vs
    /\ vs[k].expiresAt > time
    /\ vs[k].userId \in DOMAIN us

\* what the awaited call hands the handler.  A call made with asResponse is
\* answered with a Response, which has an ok property; a call made without it
\* is answered with the endpoint's own value, which has none, and throws when
\* the endpoint refuses
ResetShapes == {"response", "value"}
ResetResult(shape, live) ==
    IF shape = "response" THEN [thrown |-> FALSE, ok |-> live]
    ELSE [thrown |-> ~live, ok |-> FALSE]

\* the handler, after auth.api.resetPassword
ResetResponse(outcome, result) ==
    IF outcome = "throw" \/ result.thrown THEN JsonError(500, "Failed to reset password")
    ELSE IF ~result.ok THEN JsonError(400, "Invalid or expired token")
    ELSE JsonMessage(200, "Password reset successful")

Reset(body, outcome, shape) ==
    /\ Delivered
    /\ LET early == ValidateResponse(body, NewPasswordSchema(body))
           k == TokenOf(body.token.s)
           live == TokenLive(verifications, users, k, now)
           r == [Request("reset", NoCookie, body) EXCEPT
                     !.outcome = outcome, !.gHad = live,
                     !.uid = IF live THEN verifications[k].userId ELSE 0,
                     !.gPrior = {k} \cap consumed]
       IN  IF early # NoResp
           THEN Answer(r, early) /\ UNCHANGED << accounts, verifications, consumed >>
           ELSE /\ Answer(r, ResetResponse(outcome, ResetResult(shape, live)))
                /\ IF outcome = "ok" /\ live
                   THEN /\ accounts' = [accounts EXCEPT
                                           ![verifications[k].userId].password =
                                               body.password.s]
                        /\ verifications' =
                               [t \in DOMAIN verifications \ {k} |-> verifications[t]]
                        /\ consumed' =
                               IF ResetResponse(outcome, ResetResult(shape, live)).status = 200
                               THEN consumed \cup {k} ELSE consumed
                   ELSE UNCHANGED << accounts, verifications, consumed >>
    /\ UNCHANGED << users, sessions, nextId, nextTok, now, reqs, history,
                    vBody, vOut, nextVer, autoSignIn >>

(***************************************************************************)
(* The server: any request may arrive, any suspended one may go on.        *)
(***************************************************************************)
Next ==
    \/ Deliver
    \/ Tick
    \/ \E body \in RegisterBodies, o \in Outcomes : RegisterSignUpCheck(body, o)
    \/ \E body \in LoginBodies, o \in Outcomes : Login(body, o)
    \/ \E c \in Cookies, o \in Outcomes : Logout(c, o)
    \/ \E c \in Cookies, o \in CallOutcomes : Me(c, o)
    \/ \E c \in Cookies, o \in CallOutcomes : Refresh(c, o)
    \/ \E c \in Cookies, body \in PutBodies, o \in CallOutcomes : PutGetSession(c, body, o)
    \/ \E c \in Cookies, o \in CallOutcomes : DeleteGetSession(c, o)
    \/ \E r \in BagToSet(reqs), o \in Outcomes : RegisterSignUpInsert(r, o)
    \/ \E r \in BagToSet(reqs), o \in CallOutcomes : PutUpdate(r, o)
    \/ \E r \in BagToSet(reqs), o \in CallOutcomes : PutSelect(r, o)
    \/ \E r \in BagToSet(reqs), o \in CallOutcomes : DeleteRow(r, o)
    \/ \E r \in BagToSet(reqs), o \in Outcomes : DeleteSignOut(r, o)

Spec == Init /\ [][Next]_vars

(***************************************************************************)
(* The password reset routes, with the register and login routes that      *)
(* make and use the credential they change.                                *)
(***************************************************************************)
ResetBodies ==
    {ResetBody(Str(TokenText(k)), Str(PassB)) : k \in 1..(MaxTokens + 1)}
        \cup {ResetBody(Str(<< >>), Str(PassB)),
              ResetBody(Str(TokenText(1)), Str(<< "p", "w" >>)),
              MalformedBody}

NextReset ==
    \/ Deliver
    \/ Tick
    \/ \E body \in RegisterBodies, o \in Outcomes : RegisterSignUpCheck(body, o)
    \/ \E r \in BagToSet(reqs), o \in Outcomes : RegisterSignUpInsert(r, o)
    \/ \E body \in LoginBodies, o \in Outcomes : Login(body, o)
    \/ \E body \in ForgotBodies, o \in CallOutcomes : Forgot(body, o)
    \/ \E body \in ResetBodies, o \in CallOutcomes, sh \in ResetShapes : Reset(body, o, sh)

SpecReset == Init /\ [][NextReset]_vars

(***************************************************************************)
(* The requests that are suspended at an await, under a scheduler that     *)
(* runs the continuation of every call that has settled.                   *)
(***************************************************************************)
StageRegisterBodies == {Body("object", Str(EmailA), Str(PassA), Str(NameA)), MalformedBody}
StageLoginBodies == {Body("object", Str(EmailA), Str(PassA), Absent)}
StagePutBodies == {Body("object", Absent, Absent, Str(NameB)), EmptyObject}

\* the continuation of the suspended request r, with the outcome of its call
Continue(r, o) ==
    \/ RegisterSignUpInsert(r, o)
    \/ o \in CallOutcomes /\ PutUpdate(r, o)
    \/ o \in CallOutcomes /\ PutSelect(r, o)
    \/ o \in CallOutcomes /\ DeleteRow(r, o)
    \/ DeleteSignOut(r, o)

NextStages ==
    \/ Deliver
    \/ \E body \in StageRegisterBodies, o \in Outcomes : RegisterSignUpCheck(body, o)
    \/ \E body \in StageLoginBodies, o \in Outcomes : Login(body, o)
    \/ \E c \in Cookies, body \in StagePutBodies, o \in CallOutcomes :
          PutGetSession(c, body, o)
    \/ \E c \in Cookies, o \in CallOutcomes : DeleteGetSession(c, o)
    \/ \E r \in BagToSet(reqs), o \in Outcomes : Continue(r, o)

\* every request there can be at an await
StageReqs ==
    {[Request("register", NoCookie, b) EXCEPT
          !.pc = "signUpInsert", !.outcome = "ok", !.gPrior = p] :
        b \in StageRegisterBodies \ {MalformedBody}, p \in SUBSET (1..(MaxUsers - 1))}
    \cup {[Request("put", SessionCookie(k), b) EXCEPT
               !.pc = pc, !.outcome = "ok", !.gHad = TRUE, !.uid = u] :
             k \in 1..MaxSessions, b \in StagePutBodies \ {EmptyObject},
             pc \in {"update", "select"}, u \in 1..MaxUsers}
    \cup {[Request("delete", SessionCookie(k), NoBody) EXCEPT
               !.pc = "deleteRow", !.outcome = "ok", !.gHad = TRUE, !.uid = u] :
             k \in 1..MaxSessions, u \in 1..MaxUsers}
    \cup {x \in {[Request("delete", SessionCookie(k), NoBody) EXCEPT
                      !.pc = "signOut", !.outcome = "ok", !.gHad = TRUE, !.uid = u,
                      !.gToks = t] :
                    k \in 1..MaxSessions, u \in 1..MaxUsers,
                    t \in SUBSET (1..MaxSessions)} :
             x.cookie.tok \in x.gToks}

\* a response that is formed goes out, and the continuation of a call that
\* has settled is run, however often other requests get in between
FairStages ==
    /\ WF_vars(Deliver)
    /\ \A r \in StageReqs :
          SF_vars(r \in BagToSet(reqs) /\ \E o \in Outcomes : Continue(r, o))

SpecStages == Init /\ [][NextStages]_vars /\ FairStages

(***************************************************************************)
(* Two users, and the PUT and DELETE /auth/me of the one who is logged in,  *)
(* with bodies that name the other.                                         *)
(***************************************************************************)
OwnerRegisterBodies ==
    {Body("object", Str(e), Str(PassA), Str(NameA)) : e \in {EmailA, EmailB}}
OwnerLoginBodies ==
    {Body("object", Str(e), Str(PassA), Absent) : e \in {EmailA, EmailB}}
\* an id key in the body is not part of the update shape and is stripped
OwnerPutBodies ==
    {[Body("object", Absent, Absent, Str(NameB)) EXCEPT !.id = u] : u \in 1..MaxUsers}
        \cup {[Body("object", Str(e), Absent, Absent) EXCEPT !.id = u] :
                 e \in {EmailA, EmailB}, u \in 1..MaxUsers}

NextOwner ==
    \/ Deliver
    \/ \E body \in OwnerRegisterBodies : RegisterSignUpCheck(body, "ok")
    \/ \E r \in BagToSet(reqs) : RegisterSignUpInsert(r, "ok")
    \/ \E body \in OwnerLoginBodies : Login(body, "ok")
    \/ \E c \in Cookies, body \in OwnerPutBodies, o \in CallOutcomes :
          PutGetSession(c, body, o)
    \/ \E c \in Cookies, o \in CallOutcomes : DeleteGetSession(c, o)
    \/ \E r \in BagToSet(reqs), o \in CallOutcomes : PutUpdate(r, o)
    \/ \E r \in BagToSet(reqs), o \in CallOutcomes : PutSelect(r, o)
    \/ \E r \in BagToSet(reqs), o \in CallOutcomes : DeleteRow(r, o)
    \/ \E r \in BagToSet(reqs), o \in Outcomes : DeleteSignOut(r, o)

SpecOwner == Init /\ [][NextOwner]_vars

(***************************************************************************)
(* The session routes under either configuration of the delegate: the one  *)
(* that sets autoSignIn to false, and the one that leaves it at its         *)
(* default, which is true.                                                  *)
(***************************************************************************)
InitConfig ==
    /\ users = << >>
    /\ accounts = << >>
    /\ sessions = << >>
    /\ nextId = 1
    /\ nextTok = 1
    /\ now = 0
    /\ reqs = EmptyBag
    /\ out = Idle
    /\ loggedOut = {}
    /\ deletedToks = {}
    /\ registered = << >>
    /\ written = << >>
    /\ vBody = NoBody
    /\ vOut = NoResp
    /\ verifications = << >>
    /\ nextVer = 1
    /\ consumed = {}
    /\ autoSignIn \in BOOLEAN

NextConfig ==
    \/ Deliver
    \/ Tick
    \/ \E body \in RegisterBodies, o \in Outcomes : RegisterSignUpCheck(body, o)
    \/ \E r \in BagToSet(reqs), o \in Outcomes : RegisterSignUpInsert(r, o)
    \/ \E body \in LoginBodies, o \in LoginOutcomes : Login(body, o)
    \/ \E c \in Cookies, o \in Outcomes : Logout(c, o)
    \/ \E c \in Cookies, o \in CallOutcomes : Me(c, o)
    \/ \E c \in Cookies, o \in CallOutcomes : DeleteGetSession(c, o)
    \/ \E r \in BagToSet(reqs), o \in CallOutcomes : DeleteRow(r, o)
    \/ \E r \in BagToSet(reqs), o \in Outcomes : DeleteSignOut(r, o)

SpecConfig == InitConfig /\ [][NextConfig]_vars

(***************************************************************************)
(* The register validation on its own: a body arrives, is parsed and       *)
(* validated, and the 400 response, if there is one, is formed.            *)
(***************************************************************************)
Pending == [NoResp EXCEPT !.message = "pending"]

EmailSamples ==
    {Absent, NonString, Str(EmailA), Str(<< >>), Str(<< "a", "@" >>),
     Str(Rep("a", EmailMax - 4) \o << "@", "b", ".", "c", "o" >>),
     Str(Rep("a", EmailMax + 1))}
PasswordSamples ==
    {Absent, NonString, Str(PassA), Str(<< >>), Str(<< "P", "a", "0" >>),
     Str(<< "p", "a", "s", "s", "w", "o", "r", "d" >>),
     Str(<< "P", "0" >> \o Rep("a", PasswordMax - 1)),
     Str(Rep("a", PasswordMax + 1))}
NameSamples ==
    {Absent, NonString, Str(NameA), Str(<< >>), Str(<< "A", "1" >>),
     Str(<< "A", "l", " ", "O", "'", "B", "-", "c" >>),
     Str(<< "A", "l", "\n", "B", "o" >>),
     Str(Rep("a", NameMax + 1)), Str(Rep("1", NameMax + 1))}

\* JSON null, which parses but is no object
NullBody == Body("null", Absent, Absent, Absent)

ValidateBodies ==
    {Body("object", e, p, n) : e \in EmailSamples, p \in PasswordSamples, n \in NameSamples}
        \cup {MalformedBody, NullBody}

InitValidate ==
    /\ users = << >>
    /\ accounts = << >>
    /\ sessions = << >>
    /\ nextId = 1
    /\ nextTok = 1
    /\ now = 0
    /\ reqs = EmptyBag
    /\ out = Idle
    /\ loggedOut = {}
    /\ deletedToks = {}
    /\ registered = << >>
    /\ written = << >>
    /\ vBody \in ValidateBodies
    /\ vOut = Pending
    /\ verifications = << >>
    /\ nextVer = 1
    /\ consumed = {}
    /\ autoSignIn = FALSE

\* the first half of POST /auth/register: NoResp when the body passes
ValidateRegister ==
    /\ vOut = Pending
    /\ vOut' = BodyResponse(vBody, registerSchema(vBody))
    /\ UNCHANGED << store, now, reqs, out, history, vBody, rvars, autoSignIn >>

NextValidate == ValidateRegister

SpecValidate == InitValidate /\ [][NextValidate]_vars

(***************************************************************************)
(* Properties of the answers.                                              *)
(***************************************************************************)
Is2xx(status) == status \in 200..299
AtGate(r) == r.kind \in {"put", "delete"} /\ r.uid = 0

\* C1: a GET /auth/me that carries no cookie, an unknown cookie, or the cookie
\* of a session that is no longer valid is answered with status 401, whatever
\* users and sessions the store holds.
C1_MeWithoutSession ==
    (out.kind = "me" /\ ~out.gHad) => out.resp.status = 401

C1_StaleCookie ==
    /\ out.kind = "me"
    /\ out.cookie.kind = "session"
    /\ ~out.gHad
    /\ users # << >>
    /\ out.resp.status = 401

\* C2: once POST /auth/logout has answered 200 to a request with session
\* cookie K, every later GET /auth/me with K is answered 401.
C2_MeAfterLogout ==
    (out.kind = "me" /\ out.cookie.kind = "session" /\ out.cookie.tok \in loggedOut)
        => out.resp.status = 401

C4_WhileUserExists ==
    (out.kind = "register" /\ out.gPrior \cap DOMAIN users # {})
        => /\ ~Is2xx(out.resp.status)
           /\ Cardinality(UserByEmail(users, out.body.email.s)) <= 1

\* C4: when a register for email E was answered 201 and the user it created
\* still exists and still holds E, a later register for E gets a non-2xx
\* status; no two rows ever hold one email, so of two registrations for E
\* handled at once at most one row, and one 201, comes about.
C4_WhileEmailHeld ==
    /\ (out.kind = "register"
          /\ \E u \in out.gPrior \cap DOMAIN users : users[u].email = out.body.email.s)
        => ~Is2xx(out.resp.status)
    /\ \A u, v \in DOMAIN users : users[u].email = users[v].email => u = v
    /\ (out.kind = "register" /\ out.resp.status = 201)
        => UserByEmail(users, out.body.email.s) = {out.resp.user.id}

C4_SecondRegister ==
    /\ out.kind = "register"
    /\ out.outcome = "ok"
    /\ \E u \in out.gPrior \cap DOMAIN users : users[u].email = out.body.email.s
    /\ out.resp.status = 422

\* the store of the other run: the same store without the user of this email
WithoutEmail(us, email) == [u \in DOMAIN us \ UserByEmail(us, email) |-> us[u]]

\* the answer the login request r gets on the user table us
LoginOn(us, r) ==
    LoginResponse(SignInAnswer(us, accounts, r.body.email.s, r.body.password.s,
                               nextTok, now))

\* C5: a login with a schema-valid body gets the same response, 401 with
\* {error: "Invalid credentials"}, where the email is not registered and where
\* it is registered and the password is wrong.
C5_SameAnswer ==
    (/\ out.kind = "login"
     /\ out.body.kind = "object" /\ loginSchema(out.body) = << >>
     /\ out.outcome = "ok"
     /\ out.resp.status # 200)
        => /\ out.resp = JsonError(401, "Invalid credentials")
           /\ out.resp = LoginOn(WithoutEmail(users, out.body.email.s), out)

C5_WrongPassword ==
    /\ out.kind = "login"
    /\ out.outcome = "ok"
    /\ SignUpTaken(users, out.body.email.s)
    /\ out.resp.status = 401

\* C6: for an email of valid syntax, forgot-password answers 200 with the same
\* message where a user holds the email and where none does; the answer in
\* one store is the answer in the other.
C6_ForgotSameAnswer ==
    (out.kind = "forgot" /\ ResetPasswordSchema(out.body) = << >>)
        => /\ out.resp = ForgotResponse(out.outcome, ~SignUpTaken(users, out.body.email.s))
           /\ out.outcome = "ok" =>
                out.resp = JsonMessage(200,
                    "If an account exists with this email, a password reset link has been sent")

C6_ForgotRegistered ==
    /\ out.kind = "forgot"
    /\ SignUpTaken(users, out.body.email.s)
    /\ out.outcome = "ok"
    /\ out.resp.status = 200

\* C7: a logout request that carries no valid session is answered 401 with an
\* {error} body, not 200.
C7_LogoutNeedsSession ==
    (out.kind = "logout" /\ ~out.gHad)
        => out.resp.status = 401 /\ out.resp.error # ""

\* C8 as stated: on PUT and DELETE /auth/me, when getSession gives no session
\* or no user, or fails, the request ends with 401.
C8_GateAlways401 ==
    AtGate(out) => out.resp.status = 401

\* C8: on PUT and DELETE /auth/me, when getSession gives no session or no user
\* the request ends with 401 "Unauthorized", and when getSession fails it ends
\* with 500; either way nothing else happens: the body is not read, the store
\* is as it was, and the request was never taken further.  When a session is
\* there the request goes on under the user getSession resolved, and a step of
\* it touches no other user's row.
C8_Gate ==
    [][ /\ (out'.kind \in {"put", "delete"} /\ ~out'.gHad /\ out'.outcome # "throw")
            => out'.resp = JsonError(401, "Unauthorized")
        /\ (AtGate(out') /\ out'.outcome = "throw")
            => out'.resp = JsonError(500, ThrownMessage)
        /\ (out'.kind \in {"put", "delete"} /\ (~out'.gHad \/ out'.uid = 0))
            => /\ out'.body = NoBody
               /\ UNCHANGED << store, reqs >>
        /\ \A r \in BagToSet(reqs') :
              (r.kind \in {"put", "delete"} /\ BagCardinality(reqs') > BagCardinality(reqs)
                 /\ CopiesIn(r, reqs') > CopiesIn(r, reqs))
                => r.uid # 0 /\ r.uid = GetSession(r.cookie).user.id
        /\ \A r \in BagToSet(reqs) :
              (r.kind \in {"put", "delete"} /\ CopiesIn(r, reqs') < CopiesIn(r, reqs))
                => \A u \in DOMAIN users \ {r.uid} :
                      u \in DOMAIN users' /\ users'[u] = users[u]
      ]_vars

C8_StaleCookieAtGate ==
    /\ AtGate(out)
    /\ out.cookie.kind = "session"
    /\ ~out.gHad
    /\ users # << >>
    /\ out.resp.status = 401

\* the rules of the register shape as the interface words them
RegisterRules ==
    {[field |-> "email", rule |-> "present", min |-> 0, max |-> 0],
     [field |-> "email", rule |-> "syntax", min |-> 0, max |-> 0],
     [field |-> "email", rule |-> "length", min |-> EmailMin, max |-> EmailMax],
     [field |-> "password", rule |-> "present", min |-> 0, max |-> 0],
     [field |-> "password", rule |-> "length", min |-> PasswordMin, max |-> PasswordMax],
     [field |-> "password", rule |-> "mix", min |-> 0, max |-> 0],
     [field |-> "name", rule |-> "present", min |-> 0, max |-> 0],
     [field |-> "name", rule |-> "length", min |-> NameMin, max |-> NameMax],
     [field |-> "name", rule |-> "letters", min |-> 0, max |-> 0]}

Broken(body, r) ==
    LET v == body[r.field]
    IN  IF v.t = "absent" THEN r.rule = "present"
        ELSE CASE r.rule = "present" -> FALSE
               [] r.rule = "syntax" -> ~IsEmail(v.s)
               [] r.rule = "length" -> Len(v.s) \notin r.min..r.max
               [] r.rule = "mix" -> \E cs \in {LowerChars, UpperChars, DigitChars} :
                                       Chars(v.s) \cap cs = {}
               [] r.rule = "letters" ->
                      \/ v.s = << >>
                      \/ ~(Chars(v.s) \subseteq (Letters \cup {" ", "'", "-"}))

BrokenRules(body) == {r \in RegisterRules : Broken(body, r)}

\* C9: a register body that parses as JSON and omits a required field or
\* breaks a rule of the register shape (name: 1-100 characters that are
\* letters, spaces, hyphens and apostrophes) is answered 400, with exactly one
\* string in details per rule broken.
C9_OneDetailPerRule ==
    (/\ vOut # Pending
     /\ vBody.kind = "object"
     /\ \A f \in {"email", "password", "name"} : vBody[f].t # "number"
     /\ BrokenRules(vBody) # {})
        => /\ vOut.status = 400
           /\ Len(vOut.details) = Cardinality(BrokenRules(vBody))
           /\ Cardinality({vOut.details[i] : i \in DOMAIN vOut.details}) = Len(vOut.details)

\* C9, the line break apart: over the bodies whose name holds no line break
\* the answer is 400 with exactly one string per rule broken.
C9_ExceptLineBreak ==
    (vBody.name.t = "string" => "\n" \notin Chars(vBody.name.s))
        => C9_OneDetailPerRule

\* C10: a PUT /auth/me that passed the session check and whose body is the
\* empty object is answered 400, and the step that answers it leaves the user
\* rows, updatedAt included, as they were.
C10_EmptyUpdate ==
    [][ (out'.kind = "put" /\ out'.body = EmptyObject)
            => /\ out'.resp.status = 400
               /\ out'.gHad
               /\ users' = users
               /\ CopiesIn(out', reqs) = 0 /\ reqs' = reqs
      ]_vars

C10_EmptyUpdateLater ==
    /\ out.kind = "put"
    /\ out.body = EmptyObject
    /\ out.resp.status = 400
    /\ out.uid \in DOMAIN users
    /\ now > users[out.uid].updatedAt

\* C11: the write of a PUT /auth/me changes one row, that of the user the
\* request runs under, and in it only the fields the body carries and
\* updatedAt: a field the body does not carry keeps its value (the email, with
\* a body of name only), and id, emailVerified, image and createdAt stay.
C11_OnlyGivenFields ==
    [][ \A u \in DOMAIN users \cap DOMAIN users' :
          users'[u] # users[u] =>
            \E r \in BagToSet(reqs) :
                /\ At(r, "put", "update")
                /\ r.uid = u
                /\ CopiesIn(r, reqs') < CopiesIn(r, reqs)
                /\ \A f \in {"id", "emailVerified", "image", "createdAt"} :
                      users'[u][f] = users[u][f]
                /\ users'[u].updatedAt = now
                /\ \A f \in {"name", "email"} :
                      users'[u][f] = IF f \in Updates(r.body) THEN r.body[f].s
                                     ELSE users[u][f]
      ]_vars

C11_NameOnly ==
    /\ out.kind = "put"
    /\ out.resp.status = 200
    /\ Updates(out.body) = {"name"}
    /\ out.resp.user.name = out.body.name.s
    /\ out.resp.user.email = registered[out.uid]
    /\ out.resp.user.updatedAt > out.resp.user.createdAt

\* no session issued so far can have expired, or this one is there and has not
NotExpired(k) ==
    \/ now < ExpiresIn
    \/ k \in DOMAIN sessions /\ sessions[k].expiresAt > now

\* C12 as stated: a login answered 200 carries a session cookie and a session
\* that expires after the login, and a GET /auth/me with that cookie, before
\* the session expires and before a logout, is answered 200 with the user.
C12_UntilExpiryOrLogout ==
    /\ (out.kind = "login" /\ out.resp.status = 200)
        => /\ out.resp.setCookie = SessionCookie(out.resp.session.tok)
           /\ out.resp.session.expiresAt > now
    /\ (out.kind = "me" /\ out.cookie.kind = "session"
          /\ out.cookie.tok \notin loggedOut /\ NotExpired(out.cookie.tok))
        => out.resp.status = 200 /\ out.resp.user.id # 0

\* C12: a login answered 200 carries the session cookie of a new session of
\* the user whose email and password the body gave, and the session expires
\* after the login.  A session stays valid until it expires, a logout with its
\* cookie revokes it, or its user is deleted.  A GET /auth/me with the cookie
\* of a valid session is answered 200 with the row, and so the email, of that
\* user as it is then, unless the session lookup itself fails: then 401.
C12_WhileSessionValid ==
    [][ /\ (out'.kind = "login" /\ out'.resp.status = 200)
            => LET k == out'.resp.session.tok
                   id == out'.resp.user.id
               IN  /\ out'.resp.setCookie = SessionCookie(k)
                   /\ out'.resp.session.expiresAt > now
                   /\ k \notin DOMAIN sessions
                   /\ k \in DOMAIN sessions'
                   /\ id \in DOMAIN users'
                   /\ sessions'[k] = [userId |-> id,
                                      expiresAt |-> out'.resp.session.expiresAt]
                   /\ users[id].email = out'.body.email.s
                   /\ accounts[id].password = out'.body.password.s
        /\ \A k \in DOMAIN sessions :
              (ValidSession(k) /\ ~ValidSession(k)')
                => \/ now' >= sessions[k].expiresAt
                   \/ out'.kind = "logout" /\ out'.cookie = SessionCookie(k)
                   \/ out'.kind = "delete" /\ out'.cookie = SessionCookie(k)
                   \/ sessions[k].userId \notin DOMAIN users'
        /\ (out'.kind = "me" /\ out'.cookie.kind = "session" /\ ValidSession(out'.cookie.tok))
            => IF out'.outcome = "throw" THEN out'.resp.status = 401
               ELSE /\ out'.resp.status = 200
                    /\ out'.resp.user = users[sessions[out'.cookie.tok].userId]
      ]_vars

C12_MeWithLoginCookie ==
    /\ out.kind = "me"
    /\ out.cookie.kind = "session"
    /\ out.resp.status = 200
    /\ now > 0
    /\ out.resp.user.email = EmailA
    /\ sessions[out.cookie.tok].expiresAt > now

\* the cookie of the request is that of a session the store holds as valid
HasSession(r) == r.cookie.kind = "session" /\ ValidSession(r.cookie.tok)

\* C13 as stated: POST /auth/refresh is answered 200 with user and session
\* when there is a valid session for the request, and 401 in every other case.
C13_RefreshOr401 ==
    out.kind = "refresh"
        => IF HasSession(out) /\ out.outcome = "ok"
           THEN /\ out.resp.status = 200
                /\ out.resp.user # NoUser
                /\ out.resp.session # NoSession
           ELSE out.resp.status = 401

\* C13: POST /auth/refresh is answered 200, with the user and the session of
\* the request's cookie, exactly when getSession returns a valid session; 401
\* "No active session" when it returns none; and 500 when getSession throws.
\* No 200 goes out without a user.
C13_RefreshAnswer ==
    out.kind = "refresh"
        => /\ IF out.outcome = "throw" THEN out.resp = JsonError(500, ThrownMessage)
              ELSE IF HasSession(out)
              THEN /\ out.resp.status = 200
                   /\ out.resp.user = users[sessions[out.cookie.tok].userId]
                   /\ out.resp.session.tok = out.cookie.tok
                   /\ out.resp.session.userId = out.resp.user.id
                   /\ out.resp.session.expiresAt = sessions[out.cookie.tok].expiresAt
              ELSE out.resp = JsonError(401, "No active session")
           /\ out.resp.status = 200 => out.resp.user # NoUser /\ out.resp.session # NoSession

C13_RefreshWithSession ==
    /\ out.kind = "refresh"
    /\ HasSession(out)
    /\ out.outcome = "ok"
    /\ out.resp.status = 200
    /\ out.resp.user.email \in {EmailA, EmailB}

\* C14: on logout, refresh and GET, PUT and DELETE /auth/me a request without
\* a valid session (no cookie, a cookie never issued, an expired or revoked
\* session) is answered 401 with the one error text "Unauthorized".
C14_SameUnauthorized ==
    (/\ out.kind \in {"logout", "refresh", "me", "put", "delete"}
     /\ ~out.gHad
     /\ out.outcome = "ok")
        => out.resp = JsonError(401, "Unauthorized")

\* C14, on the three /auth/me endpoints alone: there the answer is 401
\* "Unauthorized" for each of the causes.
C14_OnMeEndpoints ==
    (/\ out.kind \in {"me", "put", "delete"}
     /\ ~out.gHad
     /\ out.outcome = "ok")
        => out.resp = JsonError(401, "Unauthorized")

\* the issues the schema of the request's endpoint finds in its body
SchemaIssues(r) ==
    IF r.kind = "register" THEN registerSchema(r.body)
    ELSE IF r.kind = "login" THEN loginSchema(r.body)
    ELSE updateUserSchema(r.body)

\* the request's body was parsed and its endpoint's schema rejects it
Invalid(r) ==
    /\ r.kind \in {"register", "login", "put"}
    /\ r.body.kind = "object"
    /\ SchemaIssues(r) # << >>

\* C15: a register, login or profile update whose body fails its schema is
\* answered 400 "Validation failed" in the step it arrives in: whatever the
\* delegate's sign-up or sign-in would have done is of no effect on the answer,
\* the request is never left waiting on a call, and users, accounts and
\* sessions are as they were.
C15_ValidationEnds ==
    [][ Invalid(out')
            => /\ out'.resp = JsonDetails(400, "Validation failed", SchemaIssues(out'))
               /\ CopiesIn(out', reqs) = 0
               /\ UNCHANGED << store, reqs >>
      ]_vars

C15_InvalidLogin ==
    /\ Invalid(out)
    /\ out.kind = "login"
    /\ out.outcome = "throw"
    /\ users # << >>
    /\ out.resp.status = 400

\* C16: a register, login or profile update (behind its session check) whose
\* body does not parse as JSON is answered 400 "Invalid JSON format" with a
\* details list of the one string "Request body must be valid JSON"; this is
\* not the answer of a schema failure: other error text, and a detail that
\* names no field and is none of the schema's issues.
C16_MalformedBody ==
    (out.kind \in {"register", "login", "put"} /\ out.body.kind = "malformed")
        => /\ out.resp.status = 400
           /\ out.resp.details = << "Request body must be valid JSON" >>
           /\ out.resp.error = "Invalid JSON format"
           /\ out.resp.error # "Validation failed"
           /\ \A i \in DOMAIN SchemaIssues(out) : SchemaIssues(out)[i] # out.resp.details[1]

C16_MalformedUpdate ==
    /\ out.kind = "put"
    /\ out.body.kind = "malformed"
    /\ out.gHad
    /\ out.resp.status = 400
    /\ Len(out.resp.details) = 1

\* a call the handler made threw: the answer came from its catch block
Faulted(r) == r.outcome = "throw" /\ r.resp.status # 400

\* C17: when a call of the handler throws, the answer is 500 with a generic
\* message, and the text of the error thrown is not in the body.
C17_GenericMessage ==
    Faulted(out) => out.resp.status = 500 /\ out.resp.error # ThrownMessage

\* C17, the status alone: every handler but GET /auth/me answers a thrown
\* error with 500.
C17_Status500 ==
    (Faulted(out) /\ out.kind # "me") => out.resp.status = 500

\* C18: a register with a schema-valid body is answered 201 "Registration
\* successful" with the user just created, whose email and name are those
\* submitted, when the delegate's sign-up succeeds; when the delegate rejects
\* the sign-up (the email is taken, or a failure of its own) the answer has
\* the delegate's status, which is no 2xx.  No 201 goes out otherwise.
C18_RegisterAnswer ==
    (out.kind = "register" /\ out.body.kind = "object" /\ SchemaIssues(out) = << >>)
        => /\ out.outcome = "fail"
                => /\ out.resp.status = FailedAnswer.status
                   /\ ~Is2xx(out.resp.status)
                   /\ out.resp.user = NoUser
           /\ out.outcome = "ok"
                => IF out.resp.status = 201
                   THEN /\ out.resp.message = "Registration successful"
                        /\ out.resp.user.id \in DOMAIN users
                        /\ out.resp.user = users[out.resp.user.id]
                        /\ out.resp.user.email = out.body.email.s
                        /\ out.resp.user.name = out.body.name.s
                   ELSE /\ out.resp = JsonError(422, "Registration failed")
                        /\ SignUpTaken(users, out.body.email.s)
           /\ out.resp.status = 201 => out.outcome = "ok"
           /\ Is2xx(out.resp.status) => out.resp.status = 201

C18_SecondUser ==
    /\ out.kind = "register"
    /\ out.resp.status = 201
    /\ out.resp.user.email = out.body.email.s
    /\ Cardinality(DOMAIN users) = 2

\* C19: a PUT /auth/me with a name in its body that is answered 200 carries
\* the user with that name, whatever other requests for the same user were
\* handled between its write and its re-read.
C19_ResponseHasName ==
    (out.kind = "put" /\ out.resp.status = 200 /\ "name" \in Updates(out.body))
        => out.resp.user.name = out.body.name.s

\* the Set-Cookie header of the delegate's answer to the call the request
\* made, on the store as it was at the call; NoCookie when the delegate set
\* none, or was not called, or threw
DelegateCookie(r) ==
    IF r.outcome = "throw" THEN NoCookie
    ELSE IF r.outcome = "fail" THEN FailedAnswer.setCookie
    ELSE IF r.kind = "login"
    THEN IF r.body.kind = "object" /\ loginSchema(r.body) = << >>
         THEN SignInAnswer(users, accounts, r.body.email.s, r.body.password.s,
                           nextTok, now).setCookie
         ELSE NoCookie
    ELSE IF r.kind = "logout" \/ (r.kind = "delete" /\ r.uid # 0) THEN ClearCookie
    ELSE NoCookie

\* C20: the Set-Cookie header of a response is the one the delegate returned
\* to the sign-in or sign-out the request made, unchanged: the session cookie
\* on a login, the clearing cookie on a logout and on an account deletion, and
\* no header where the delegate set none.
C20_CookieForwarded ==
    [][ out' # Idle =>
          /\ out'.resp.setCookie = DelegateCookie(out')
          /\ out'.kind \notin {"login", "logout", "delete"}
                => out'.resp.setCookie = NoCookie
      ]_vars

C20_ClearOnDelete ==
    /\ out.kind = "delete"
    /\ out.resp.status = 200
    /\ out.outcome = "ok"
    /\ out.resp.setCookie = ClearCookie


\* C21: a POST /auth/reset-password with a token that is live (issued, not yet
\* used, not expired) and an acceptable new password is answered 200, and with
\* a token that is not live it is answered 400, unless the store fails.
C21_ResetAnswer ==
    (/\ out.kind = "reset"
     /\ NewPasswordSchema(out.body) = << >>
     /\ out.body.kind = "object"
     /\ out.outcome = "ok")
        => IF out.gHad
           THEN out.resp = JsonMessage(200, "Password reset successful")
           ELSE out.resp = JsonError(400, "Invalid or expired token")

\* C21 (what the code does hold to): a token resets a password at most once,
\* and a request that is answered 200 has changed the password and used the token up
C21_TokenUsedOnce ==
    [][(/\ out'.kind = "reset"
        /\ out'.pc = "done"
        /\ NewPasswordSchema(out'.body) = << >>
        /\ out = Idle)
          => /\ ~out'.gHad => UNCHANGED << accounts, verifications >>
             /\ out'.gHad /\ out'.outcome = "ok"
                  => /\ TokenOf(out'.body.token.s) \notin DOMAIN verifications'
                     /\ accounts'[out'.uid].password = out'.body.password.s
             /\ out'.resp.status = 200 => out'.gHad /\ out'.outcome = "ok"]_vars

\* a live token was presented and the call returned
C21_LiveTokenUsed ==
    /\ out.kind = "reset"
    /\ out.gHad
    /\ out.outcome = "ok"
    /\ TokenOf(out.body.token.s) \notin DOMAIN verifications


DuplicateKey == "duplicate key value violates unique constraint"

\* C22: no two user rows ever hold one email and a row's id never changes,
\* whatever registers, PUTs and DELETEs are made; a PUT /auth/me that would
\* give a user the email of another fails and leaves every row as it was.
C22_UniqueEmailFixedId ==
    [][ /\ \A u, v \in DOMAIN users' : users'[u].email = users'[v].email => u = v
        /\ \A u \in DOMAIN users' : users'[u].id = u
        /\ \A u \in DOMAIN users \cap DOMAIN users' : users'[u].id = users[u].id
        /\ \A r \in BagToSet(reqs) :
              (/\ At(r, "put", "update")
               /\ CopiesIn(r, reqs') < CopiesIn(r, reqs)
               /\ r.uid \in DOMAIN users
               /\ "email" \in Updates(r.body)
               /\ \E v \in DOMAIN users \ {r.uid} : users[v].email = r.body.email.s)
                 => /\ users' = users
                    /\ ~Is2xx(out'.resp.status)
                    /\ out'.kind = "put"
      ]_vars

\* a PUT asked for the email another user holds, and was refused
C22_DuplicateRefused ==
    /\ out.kind = "put"
    /\ out.outcome = "ok"
    /\ out.resp = JsonError(500, DuplicateKey)
    /\ \E v \in DOMAIN users \ {out.uid} : users[v].email = out.body.email.s
    /\ out.uid \in DOMAIN users
    /\ users[out.uid].email # out.body.email.s


\* this step takes the suspended request r on
Moved(r) == CopiesIn(r, reqs') < CopiesIn(r, reqs)
\* this step is the first of a request of one of these kinds
Arrived(kinds) ==
    /\ out = Idle
    /\ \/ out'.kind \in kinds
       \/ \E r \in BagToSet(reqs') :
             r.kind \in kinds /\ CopiesIn(r, reqs') > CopiesIn(r, reqs)
                              /\ BagCardinality(reqs') > BagCardinality(reqs)
\* a table's rows are as they were, but for those of user id, which may be gone
OnlyRowsOf(id, old, new, owner(_)) ==
    /\ DOMAIN new \subseteq DOMAIN old
    /\ \A k \in DOMAIN new : new[k] = old[k]
    /\ \A k \in DOMAIN old \ DOMAIN new : owner(k) = id

\* C23: the statements of the handlers themselves touch the user table only:
\* a PUT /auth/me step writes name, email and updatedAt of one user row, a
\* DELETE /auth/me step removes one user row, and session, account and
\* verification rows change only in the delegate's calls and by the cascade
\* that follows the removal of a user row.
C23_UsersTableOnly ==
    [][ /\ \A r \in BagToSet(reqs) :
              (r.kind = "put" /\ Moved(r))
                => /\ UNCHANGED << accounts, sessions, verifications >>
                   /\ DOMAIN users' = DOMAIN users
                   /\ \A u \in DOMAIN users :
                         \/ users'[u] = users[u]
                         \/ /\ u = r.uid
                            /\ users'[u] = [users[u] EXCEPT
                                               !.name = users'[u].name,
                                               !.email = users'[u].email,
                                               !.updatedAt = users'[u].updatedAt]
        /\ \A r \in BagToSet(reqs) :
              (At(r, "delete", "deleteRow") /\ Moved(r))
                => /\ users' \in {users, [u \in DOMAIN users \ {r.uid} |-> users[u]]}
                   /\ verifications' = verifications
                   /\ IF users' = users
                      THEN UNCHANGED << accounts, sessions >>
                      ELSE /\ OnlyRowsOf(r.uid, sessions, sessions',
                                         LAMBDA k : sessions[k].userId)
                           /\ OnlyRowsOf(r.uid, accounts, accounts', LAMBDA k : k)
        /\ Arrived({"put", "delete", "me", "refresh"})
              => UNCHANGED << users, accounts, sessions, verifications >>
        /\ sessions' # sessions
              => \/ Arrived({"login", "logout"})
                 \/ \E r \in BagToSet(reqs) : r.kind = "delete" /\ Moved(r)
        /\ accounts' # accounts
              => \E r \in BagToSet(reqs) :
                    /\ Moved(r)
                    /\ At(r, "register", "signUpInsert") \/ At(r, "delete", "deleteRow")
        /\ users' # users
              => \E r \in BagToSet(reqs) :
                    /\ Moved(r)
                    /\ \/ At(r, "register", "signUpInsert")
                       \/ At(r, "delete", "deleteRow")
                       \/ At(r, "put", "update")
      ]_vars

\* a DELETE /auth/me removed its user's row while another user's row was there,
\* and the sign-out is still to come
C23_RowDeleted ==
    \E r \in BagToSet(reqs) :
        /\ At(r, "delete", "signOut")
        /\ r.uid \notin DOMAIN users
        /\ users # << >>
        /\ r.cookie.tok \notin DOMAIN sessions


\* the PUT /auth/me requests that are in flight for one user
PutsInFlight(u) == {r \in BagToSet(reqs) : r.kind = "put" /\ r.uid = u}

\* C24: PUT /auth/me requests handled at once for one user lose no update: in
\* every state, and so once both have finished, each of name and email holds
\* the value of the last write made to that field, by whichever request; one
\* request's write of the name does not undo another's write of the email.
C24_NoLostUpdate ==
    \A u \in DOMAIN users :
        /\ u \in DOMAIN written
        /\ users[u].name = written[u].name
        /\ users[u].email = written[u].email

\* two PUTs for one user were in flight together, one of the name and one of
\* the email; the second now ends with both values in the row
C24_BothWritten ==
    /\ out.kind = "put"
    /\ out.resp.status = 200
    /\ Updates(out.body) = {"email"}
    /\ out.resp.user.email = out.body.email.s
    /\ out.resp.user.name = NameB
    /\ \E r \in PutsInFlight(out.uid) :
          r.pc = "select" /\ Updates(r.body) = {"name"} /\ r.body.name.s = NameB


\* how far a request has come: taken in, at its first call, at its second, answered
StageRank(pc) ==
    IF pc = "idle" THEN 0
    ELSE IF pc \in {"signUpInsert", "update", "deleteRow"} THEN 1
    ELSE IF pc \in {"select", "signOut"} THEN 2
    ELSE 3
\* the same request, at whatever stage
SameRequest(a, b) ==
    /\ a.kind = b.kind /\ a.cookie = b.cookie /\ a.body = b.body
    /\ a.uid = b.uid /\ a.gHad = b.gHad /\ a.gPrior = b.gPrior
Answered(r) == out.pc = "done" /\ SameRequest(out, r) /\ out.resp.status \in 200..599

LoginTokens == 1..(nextTok - 1)

\* C26: a valid session of a user is always one a successful login made, not
\* yet ended by a logout, by its expiry or by the deletion of the user; a
\* registration makes no session, its response sets no cookie, and a GET
\* /auth/me made before any login is answered 401.
C26_SessionsFromLogin ==
    /\ \A k \in DOMAIN sessions :
          ValidSession(k) => k \in LoginTokens /\ k \notin loggedOut
    /\ out.kind = "register" => out.resp.setCookie = NoCookie
    /\ (out.kind = "me" /\ nextTok = 1) => out.resp.status = 401

\* C26 (what holds under either configuration): every session a caller can
\* present is one a login made; the register response sets no cookie; and a
\* GET /auth/me made before any login is answered 401, as is one made with a
\* cookie whose session has expired or was removed.
C26_CookiesFromLogin ==
    /\ \A c \in Cookies : c.kind = "session" => c.tok \in LoginTokens
    /\ out.kind = "register" => out.resp.setCookie = NoCookie
    /\ (out.kind = "me" /\ nextTok = 1) => out.resp.status = 401
    /\ (out.kind = "me" /\ out.resp.status = 200)
          => /\ out.cookie.kind = "session"
             /\ out.cookie.tok \in LoginTokens
             /\ ValidSession(out.cookie.tok)

\* a user was registered and no login was made; GET /auth/me is answered 401
C26_MeAfterRegister ==
    /\ out.kind = "me"
    /\ nextTok = 1
    /\ users # << >>
    /\ out.outcome = "ok"
    /\ out.resp.status = 401


\* C27: a PUT or DELETE /auth/me runs under the user who owns the session of
\* its cookie, and a step of it changes or removes no row of another user, in
\* the user, account or session table, whatever id, name or email its body
\* carries.
C27_OwnRowOnly ==
    [][ \A r \in BagToSet(reqs) :
          (r.kind \in {"put", "delete"} /\ Moved(r))
            => /\ r.cookie.kind = "session"
               /\ r.cookie.tok \in DOMAIN sessions
                    => sessions[r.cookie.tok].userId = r.uid
               /\ \A u \in DOMAIN users \ {r.uid} :
                     /\ u \in DOMAIN users'
                     /\ users'[u] = users[u]
                     /\ u \in DOMAIN accounts => accounts'[u] = accounts[u]
               /\ \A k \in DOMAIN sessions :
                     sessions[k].userId # r.uid
                       => k \in DOMAIN sessions' /\ sessions'[k] = sessions[k]
      ]_vars

\* the second user is logged in and has put the first user's id and a new
\* name in the body: the name is in the second user's row, the first's is as
\* it was registered
C27_OtherNamed ==
    /\ out.kind = "put"
    /\ out.resp.status = 200
    /\ out.uid = 2
    /\ out.body.id = 1
    /\ out.body.name = Str(NameB)
    /\ users[2].name = NameB
    /\ 1 \in DOMAIN users
    /\ users[1].name = NameA


\* C28: when a DELETE /auth/me removes the user while a PUT /auth/me of that
\* user is between its session check and its update or re-read, the row stays
\* gone (no step of the PUT, and no other step, brings a removed user back)
\* and the PUT is answered with an error status; a 200 of PUT /auth/me always
\* carries the row the user has.
C28_DeletedStaysDeleted ==
    [][ /\ \A u \in 1..(nextId - 1) : u \notin DOMAIN users => u \notin DOMAIN users'
        /\ \A r \in BagToSet(reqs) :
              (r.kind = "put" /\ Moved(r) /\ r.uid \notin DOMAIN users)
                => /\ users' = users
                   /\ out' # Idle => out'.resp.status \in 400..599
        /\ (out'.kind = "put" /\ out'.resp.status \in 200..399)
              => /\ out'.uid \in DOMAIN users'
                 /\ out'.resp.user = users'[out'.uid]
      ]_vars

\* the user of a PUT /auth/me was removed after its session check: the re-read
\* found no row and the request was answered 500
C28_PutAfterDelete ==
    /\ out.kind = "put"
    /\ out.outcome = "ok"
    /\ out.uid # 0
    /\ out.uid \notin DOMAIN users
    /\ out.resp.status = 500
    /\ out.resp.user = NoUser


\* the Set-Cookie header of the delegate's answer to the login request r
DelegateLoginCookie(r) ==
    IF r.outcome = "failClearing" THEN FailedAnswerClearing.setCookie
    ELSE IF r.outcome = "fail" THEN FailedAnswer.setCookie
    ELSE SignInAnswer(users, accounts, r.body.email.s, r.body.password.s, 0, now).setCookie

\* C29: the login handler forwards the delegate's Set-Cookie header whatever
\* the delegate's status: a 401 "Invalid credentials" carries a Set-Cookie
\* header exactly when the delegate's failure answer carried one, and the same
\* one, and it is never a cookie a session check accepts.
C29_CookieOn401 ==
    (out.kind = "login" /\ out.resp.status = 401)
        => /\ out.resp.error = "Invalid credentials"
           /\ out.resp.setCookie = DelegateLoginCookie(out)
           /\ out.resp.setCookie.kind # "session"
           /\ GetSession(out.resp.setCookie).session = NoSession

\* the delegate refused a sign-in for a registered user while a session of that
\* user was valid, and its answer carried a Set-Cookie header: the 401 carries it
C29_ClearingOn401 ==
    /\ out.kind = "login"
    /\ out.outcome = "failClearing"
    /\ out.resp.status = 401
    /\ out.resp.setCookie = ClearCookie
    /\ UserByEmail(users, out.body.email.s) # {}
    /\ \E k \in DOMAIN sessions : ValidSession(k)


\* C30: DELETE /auth/me removes the user row first and signs out after, and
\* only if the removal did not fail.  When the removal throws, the request
\* ends there with 500 and no Set-Cookie header, no sign-out is made, and the
\* row and the sessions are as they were; a sign-out is made only for a user
\* whose row is gone, and whether it works, fails or throws, the row stays gone.
C30_DeleteThenSignOut ==
    [][ \A r \in BagToSet(reqs) :
          /\ (At(r, "delete", "deleteRow") /\ Moved(r))
                => IF out' # Idle
                   THEN /\ out'.outcome = "throw"
                        /\ out'.resp.status = 500
                        /\ out'.resp.setCookie = NoCookie
                        /\ UNCHANGED << users, accounts, sessions >>
                        /\ BagCardinality(reqs') = BagCardinality(reqs) - 1
                   ELSE /\ r.uid \notin DOMAIN users'
                        /\ \E r2 \in BagToSet(reqs') :
                              /\ At(r2, "delete", "signOut")
                              /\ SameRequest(r2, r)
                              /\ CopiesIn(r2, reqs') > CopiesIn(r2, reqs)
          /\ (At(r, "delete", "signOut") /\ Moved(r))
                => /\ r.uid \notin DOMAIN users
                   /\ users' = users
                   /\ out'.kind = "delete"
      ]_vars

\* the removal threw: 500, no Set-Cookie header, the row is there and the
\* session of the request's cookie is valid
C30_DeleteThrew ==
    /\ out.kind = "delete"
    /\ out.outcome = "throw"
    /\ out.uid # 0
    /\ out.resp.status = 500
    /\ out.resp.setCookie = NoCookie
    /\ out.uid \in DOMAIN users
    /\ ValidSession(out.cookie.tok)

\* the sign-out failed after the removal: the row is gone all the same
C30_SignOutFailed ==
    /\ out.kind = "delete"
    /\ out.outcome \in {"fail", "throw"}
    /\ out.uid # 0
    /\ out.uid \notin DOMAIN users

=============================================================================
